---- MODULE Spec2Model ----
(***************************************************************************)
(* Model of the uber-eats-scraper extraction engine and of its run loop.   *)
(*                                                                         *)
(* A JSON value is a tagged record, as json.loads builds it:               *)
(*   null    [t |-> "null"]              (Python None)                     *)
(*   boolean [t |-> "bool", b |-> ...]   (Python bool, a subclass of int)  *)
(*   integer [t |-> "num", n |-> ...]    (Python int)                      *)
(*   float   [t |-> "float", kind, mant, scale]                            *)
(*           kind "fin": the decimal mant / 10^scale, normalised;         *)
(*           kind "inf" / "nan": what json.loads makes of 1e999 / NaN      *)
(*   string  [t |-> "str", s |-> sequence of one-character strings]        *)
(*   array   [t |-> "arr", items |-> sequence of values]                   *)
(*   object  [t |-> "obj", keys |-> sequence of distinct keys,             *)
(*            vals |-> the values, in insertion order]  (Python dict)      *)
(***************************************************************************)
EXTENDS Integers, Sequences, FiniteSets, TLC

VARIABLES
    \* one call of an extraction function
    op,                     \* the function called, "idle" before the call
    arg,                    \* its argument
    keys,                   \* the candidate keys given to _find_first_value
    result,                 \* what it returned
    \* one run of main
    no_menu,                \* args.no_menu
    settings_include_menu,  \* settings["includeMenuByDefault"]
    concurrency,            \* settings["concurrency"]
    max_attempts,           \* settings["retry"]["maxAttempts"]
    input,                  \* the items of the input file
    include_menu_default,   \* main's local of that name
    urls,                   \* what load_input_urls returned
    main_pc,                \* "start", "run", "done" ("idle": no run)
    next_item,              \* the sequential loop's position in urls
    worker,                 \* per item: "pending", "fetching", "parsing", "done"
    attempts,               \* per item: requests issued
    outcomes,               \* per item: the outcome of each request, in order
    called_menu,            \* per item: include_menu as scrape_restaurant got it
    parsed,                 \* per item: how the try block of scrape_restaurant ended
    returned,               \* per item: what process_single returned
    collected,              \* the items whose result main has taken
    results                 \* main's list `results`, as item indices

pure_vars == <<op, arg, keys, result>>
config_vars == <<no_menu, settings_include_menu, concurrency, max_attempts, input>>
run_vars == <<no_menu, settings_include_menu, concurrency, max_attempts, input,
              include_menu_default, urls, main_pc, next_item, worker, attempts,
              outcomes, called_menu, parsed, returned, collected, results>>
vars == <<op, arg, keys, result,
          no_menu, settings_include_menu, concurrency, max_attempts, input,
          include_menu_default, urls, main_pc, next_item, worker, attempts,
          outcomes, called_menu, parsed, returned, collected, results>>

-----------------------------------------------------------------------------
(* JSON values *)

Null == [t |-> "null"]
Bool(b) == [t |-> "bool", b |-> b]
Num(n) == [t |-> "num", n |-> n]
Flt(mant, scale) == [t |-> "float", kind |-> "fin", mant |-> mant, scale |-> scale]
FltInf == [t |-> "float", kind |-> "inf", mant |-> 0, scale |-> 0]
FltNan == [t |-> "float", kind |-> "nan", mant |-> 0, scale |-> 0]
Str(s) == [t |-> "str", s |-> s]
Arr(items) == [t |-> "arr", items |-> items]
Obj(ks, vs) == [t |-> "obj", keys |-> ks, vals |-> vs]

IsObj(v) == v.t = "obj"
IsArr(v) == v.t = "arr"
IsStr(v) == v.t = "str"

\* `key in n` for a dict n
HasKey(n, k) == \E i \in 1..Len(n.keys) : n.keys[i] = k

\* n[key] for a key that is present
Item(n, k) == n.vals[CHOOSE i \in 1..Len(n.keys) : n.keys[i] = k]

\* n.get(key): the value, or None when the key is absent
Get(n, k) == IF HasKey(n, k) THEN Item(n, k) ELSE Null

\* Python truth value of a JSON value (what `or`, `if x` and `not x` test)
Truthy(v) ==
    CASE v.t = "null" -> FALSE
      [] v.t = "bool" -> v.b
      [] v.t = "num" -> v.n # 0
      [] v.t = "float" -> ~(v.kind = "fin" /\ v.mant = 0)
      [] v.t = "str" -> v.s # <<>>
      [] v.t = "arr" -> v.items # <<>>
      [] v.t = "obj" -> v.keys # <<>>

\* Python `a or b`
Or(a, b) == IF Truthy(a) THEN a ELSE b

\* isinstance(v, (int, float)): bool is a subclass of int
IsIntOrFloat(v) == v.t \in {"num", "float", "bool"}

-----------------------------------------------------------------------------
(* Key-Match Resolver: RestaurantParser._find_first_value *)

RECURSIVE FirstPresent(_, _, _)
\* for k in keys: if k in n: return n[k]   (the index of that k, 0 if none)
FirstPresent(n, ks, i) ==
    IF i > Len(ks) THEN 0
    ELSE IF HasKey(n, ks[i]) THEN i
    ELSE FirstPresent(n, ks, i + 1)

RECURSIVE ffv_walk(_, _), ffv_walk_seq(_, _, _)
ffv_walk(n, ks) ==
    IF IsObj(n) THEN
        IF FirstPresent(n, ks, 1) # 0
        THEN Item(n, ks[FirstPresent(n, ks, 1)])
        ELSE ffv_walk_seq(n.vals, 1, ks)
    ELSE IF IsArr(n) THEN ffv_walk_seq(n.items, 1, ks)
    ELSE Null

\* for v in ...: found = _walk(v); if found is not None: return found
ffv_walk_seq(vs, i, ks) ==
    IF i > Len(vs) THEN Null
    ELSE LET found == ffv_walk(vs[i], ks)
         IN IF found # Null THEN found ELSE ffv_walk_seq(vs, i + 1, ks)

find_first_value(node, ks) == ffv_walk(node, ks)

-----------------------------------------------------------------------------
(* The restaurant node: RestaurantParser._guess_restaurant_node *)

SignalKeys == <<"storeUuid", "restaurantUuid", "restaurantId", "merchant">>

\* any(key in node for key in ("storeUuid", ...))
has_signal_key(node) == \E i \in 1..Len(SignalKeys) : HasKey(node, SignalKeys[i])

RECURSIVE grn_walk(_), grn_walk_seq(_, _)
\* _walk(node): the nodes it appends to candidates, in order
grn_walk(node) ==
    IF IsObj(node)
    THEN (IF has_signal_key(node) THEN <<node>> ELSE <<>>) \o grn_walk_seq(node.vals, 1)
    ELSE IF IsArr(node) THEN grn_walk_seq(node.items, 1)
    ELSE <<>>

grn_walk_seq(vs, i) ==
    IF i > Len(vs) THEN <<>> ELSE grn_walk(vs[i]) \o grn_walk_seq(vs, i + 1)

\* a choice of the candidate appended last
first_candidate_or_root_last(candidates, root) ==
    IF candidates # <<>> THEN candidates[Len(candidates)]
    ELSE IF IsObj(root) THEN root ELSE Null

\* if candidates: return candidates[0]; return root if isinstance(root, dict) else None
first_candidate_or_root(candidates, root) ==
    IF candidates # <<>> THEN candidates[1]
    ELSE IF IsObj(root) THEN root ELSE Null

guess_restaurant_node(root) == first_candidate_or_root(grn_walk(root), root)

-----------------------------------------------------------------------------
(* Characters and decimal numbers *)

Digits == <<"0", "1", "2", "3", "4", "5", "6", "7", "8", "9">>

\* ch.isdigit(), for the ASCII characters the model uses
IsDigit(c) == \E i \in 1..10 : Digits[i] = c

DigitVal(c) == (CHOOSE i \in 1..10 : Digits[i] = c) - 1

RECURSIVE Pow10(_)
Pow10(k) == IF k = 0 THEN 1 ELSE 10 * Pow10(k - 1)

RECURSIVE NormFlt(_, _)
\* the float mant / 10^scale, with trailing zeros of the fraction dropped, so
\* that equal decimals are equal values (12.50 == 12.5)
NormFlt(mant, scale) ==
    IF scale > 0 /\ mant % 10 = 0 THEN NormFlt(mant \div 10, scale - 1)
    ELSE Flt(mant, scale)

RECURSIVE DigitsToInt(_, _, _)
\* the number written by the digits of s from position i on, after acc
\* (a character that is no digit, the decimal point, is passed over)
DigitsToInt(s, i, acc) ==
    IF i > Len(s) THEN acc
    ELSE IF IsDigit(s[i]) THEN DigitsToInt(s, i + 1, 10 * acc + DigitVal(s[i]))
    ELSE DigitsToInt(s, i + 1, acc)

SelectDigits(s) == SelectSeq(s, IsDigit)

IsDot(c) == c = "."

-----------------------------------------------------------------------------
(* Menu-item detector and price extractor: extractors/menu_parser.py *)

PriceSignalKeys == <<"price", "priceString", "displayPrice", "unitPrice">>

looks_like_menu_item(node) ==
    LET has_title == IsStr(Or(Get(node, "title"), Get(node, "name")))
        has_price == \E i \in 1..Len(PriceSignalKeys) : HasKey(node, PriceSignalKeys[i])
    IN has_title /\ has_price

NumericPriceKeys == <<"price", "unitPrice", "amount">>

\* for key in ("price", "unitPrice", "amount"): if key in node: price_raw = node[key]; break
price_raw_of(node) ==
    IF FirstPresent(node, NumericPriceKeys, 1) # 0
    THEN Item(node, NumericPriceKeys[FirstPresent(node, NumericPriceKeys, 1)])
    ELSE Null

IsDigitOrDot(c) == IsDigit(c) \/ c = "."

\* a cleaning that drops the decimal point with the other characters
clean_price_string_digits_only(s) == SelectSeq(s, IsDigit)

\* "".join(ch for ch in price_str if ch.isdigit() or ch == ".")
clean_price_string(s) == SelectSeq(s, IsDigitOrDot)

\* float(digits) succeeds on a string of digits and points iff it has at most
\* one point and at least one digit; otherwise ValueError
FloatParses(d) == Len(SelectSeq(d, IsDot)) <= 1 /\ Len(SelectDigits(d)) >= 1

DotPos(d) == CHOOSE i \in 1..Len(d) : d[i] = "."

FloatOf(d) ==
    IF Len(SelectSeq(d, IsDot)) = 0
    THEN NormFlt(DigitsToInt(d, 1, 0), 0)
    ELSE NormFlt(DigitsToInt(d, 1, 0), Len(d) - DotPos(d))

\* the branch taken when price_raw is None:
\* if digits: try: return float(digits) except ValueError: return None
float_or_none(digits) ==
    IF digits # <<>>
    THEN IF FloatParses(digits) THEN FloatOf(digits) ELSE Null
    ELSE Null

parse_price_string(price_str) ==
    IF IsStr(price_str) THEN float_or_none(clean_price_string(price_str.s)) ELSE Null

price_from_string(node) ==
    parse_price_string(Or(Or(Get(node, "priceString"), Get(node, "displayPrice")),
                          Get(node, "formattedPrice")))

CentsThreshold == 10000

\* the branch taken when price_raw is not None; the source file ends inside it
\* (after `if price_raw > 10000:`), so it follows the specification, section 4.4
price_from_number(price_raw) ==
    IF price_raw.t = "num"
    THEN IF price_raw.n > CentsThreshold THEN NormFlt(price_raw.n, 2) ELSE price_raw
    ELSE IF price_raw.t = "float" /\ price_raw.kind = "fin"
    THEN IF price_raw.mant > CentsThreshold * Pow10(price_raw.scale)
         THEN NormFlt(price_raw.mant, price_raw.scale + 2)
         ELSE price_raw
    ELSE Null

\* branch: which of the two the call took; value: what it returned
extract_price(node) ==
    IF price_raw_of(node) = Null
    THEN [branch |-> "string", value |-> price_from_string(node)]
    ELSE [branch |-> "number", value |-> price_from_number(price_raw_of(node))]

-----------------------------------------------------------------------------
(* Location normalizer: extractors/utils_location.py, parse_location *)

RECURSIVE loc_walk(_), loc_walk_seq(_, _)
\* the candidate _walk leaves behind: the first dict, in pre-order, with both
\* coordinates passing isinstance(.., (int, float)); Null when there is none
loc_walk(n) ==
    IF IsObj(n) THEN
        IF /\ HasKey(n, "latitude")
           /\ HasKey(n, "longitude")
           /\ IsIntOrFloat(Get(n, "latitude"))
           /\ IsIntOrFloat(Get(n, "longitude"))
        THEN n
        ELSE loc_walk_seq(n.vals, 1)
    ELSE IF IsArr(n) THEN loc_walk_seq(n.items, 1)
    ELSE Null

\* `if candidate is not None: return` at the head of each later call
loc_walk_seq(vs, i) ==
    IF i > Len(vs) THEN Null
    ELSE LET c == loc_walk(vs[i])
         IN IF c # Null THEN c ELSE loc_walk_seq(vs, i + 1)

DefaultLocationType == Str(<<"D", "E", "F", "A", "U", "L", "T">>)

\* loc = candidate or {}
loc_of(candidate) == IF candidate # Null /\ Truthy(candidate) THEN candidate ELSE Obj(<<>>, <<>>)

location_record(loc) ==
       [address |-> Or(Or(Get(loc, "address"), Get(loc, "streetAddress")), Get(loc, "line1")),
        city |-> Or(Or(Get(loc, "city"), Get(loc, "town")), Get(loc, "locality")),
        postalCode |-> Or(Get(loc, "postalCode"), Get(loc, "zipCode")),
        country |-> Or(Get(loc, "country"), Get(loc, "countryCode")),
        latitude |-> Get(loc, "latitude"),
        longitude |-> Get(loc, "longitude"),
        locationType |-> Or(Or(Get(loc, "locationType"), Get(loc, "type")),
                            DefaultLocationType)]

parse_location(node) == location_record(loc_of(loc_walk(node)))

-----------------------------------------------------------------------------
(* Time parser: _parse_time_to_minutes and _format_minutes *)

\* str.upper(), on the letters the model uses
Upper(c) ==
    CASE c = "a" -> "A"
      [] c = "p" -> "P"
      [] c = "m" -> "M"
      [] c = "x" -> "X"
      [] OTHER -> c

UpperStr(s) == [i \in 1..Len(s) |-> Upper(s[i])]

IsSpace(c) == c = " "

RECURSIVE LStrip(_), RStrip(_)
LStrip(s) == IF s # <<>> /\ IsSpace(s[1]) THEN LStrip(Tail(s)) ELSE s
RStrip(s) == IF s # <<>> /\ IsSpace(s[Len(s)]) THEN RStrip(SubSeq(s, 1, Len(s) - 1)) ELSE s

\* str.strip()
Strip(s) == RStrip(LStrip(s))

\* `"AM" in s` / `"PM" in s`
Contains2(s, c1, c2) == \E i \in 1..(Len(s) - 1) : s[i] = c1 /\ s[i + 1] = c2

AllDigits(s) == \A i \in 1..Len(s) : IsDigit(s[i])

\* strptime's pattern for %M: [0-5]\d|\d
MatchesMinute(s) ==
    /\ Len(s) \in {1, 2}
    /\ AllDigits(s)
    /\ Len(s) = 2 => DigitVal(s[1]) <= 5

\* a pattern for the hour that takes one digit only
MatchesHour24_one_digit(s) == Len(s) = 1 /\ AllDigits(s)

\* strptime's pattern for %H: 2[0-3]|[0-1]\d|\d
MatchesHour24(s) ==
    /\ Len(s) \in {1, 2}
    /\ AllDigits(s)
    /\ Len(s) = 2 => DigitsToInt(s, 1, 0) <= 23

\* strptime's pattern for %I: 1[0-2]|0[1-9]|[1-9]
MatchesHour12(s) ==
    /\ Len(s) \in {1, 2}
    /\ AllDigits(s)
    /\ DigitsToInt(s, 1, 0) \in 1..12

\* position of the first ":" of s, 0 if none
ColonPos(s) ==
    IF \E i \in 1..Len(s) : s[i] = ":"
    THEN CHOOSE i \in 1..Len(s) : s[i] = ":" /\ \A j \in 1..(i - 1) : s[j] # ":"
    ELSE 0

NoTime == [ok |-> FALSE, hour |-> 0, minute |-> 0]

HM_fields(c, hh, mm) ==
    IF c # 0 /\ MatchesHour24(hh) /\ MatchesMinute(mm)
    THEN [ok |-> TRUE, hour |-> DigitsToInt(hh, 1, 0), minute |-> DigitsToInt(mm, 1, 0)]
    ELSE NoTime

\* datetime.strptime(s, "%H:%M"): the whole of s must match; ok = FALSE is ValueError
strptime_HM(s) ==
    HM_fields(ColonPos(s), SubSeq(s, 1, ColonPos(s) - 1), SubSeq(s, ColonPos(s) + 1, Len(s)))

\* position of the first white space of s, 0 if none
SpacePos(s) ==
    IF \E i \in 1..Len(s) : IsSpace(s[i])
    THEN CHOOSE i \in 1..Len(s) : IsSpace(s[i]) /\ \A j \in 1..(i - 1) : ~IsSpace(s[j])
    ELSE 0

IMp_fields(c, sp, hh, mm, marker) ==
    IF /\ c # 0
       /\ sp > c
       /\ MatchesHour12(hh)
       /\ MatchesMinute(mm)
       /\ marker \in {<<"A", "M">>, <<"P", "M">>}
    THEN [ok |-> TRUE,
          hour |-> (DigitsToInt(hh, 1, 0) % 12) + (IF marker[1] = "P" THEN 12 ELSE 0),
          minute |-> DigitsToInt(mm, 1, 0)]
    ELSE NoTime

\* datetime.strptime(s, "%I:%M %p") on an upper-cased s: hour, ":", minute, one
\* or more white space, AM or PM
strptime_IMp(s) ==
    IMp_fields(ColonPos(s), SpacePos(s), SubSeq(s, 1, ColonPos(s) - 1),
               SubSeq(s, ColonPos(s) + 1, SpacePos(s) - 1),
               LStrip(SubSeq(s, SpacePos(s), Len(s))))

\* the decimal digits of a number in 0..99
TwoDigits(n) == <<Digits[(n \div 10) + 1], Digits[(n % 10) + 1]>>

\* %-I: the hour on the 12-hour clock, without a leading zero
Hour12Chars(hour) ==
    IF hour % 12 = 0 THEN <<"1", "2">>
    ELSE IF hour % 12 >= 10 THEN TwoDigits(hour % 12)
    ELSE <<Digits[(hour % 12) + 1]>>

\* time(hour=h, minute=m).strftime("%-I:%M %p")
strftime_IMp(h, m) ==
    Str(Hour12Chars(h) \o <<":">> \o TwoDigits(m) \o <<" ">>
        \o (IF h < 12 THEN <<"A", "M">> ELSE <<"P", "M">>))

\* h = minutes // 60; m = minutes % 60; time(hour=h % 24, minute=m)
format_minutes(minutes) == strftime_IMp((minutes \div 60) % 24, minutes % 60)

\* int(x) of a finite float: truncation toward zero
TruncFlt(v) ==
    IF v.mant >= 0 THEN v.mant \div Pow10(v.scale)
    ELSE -((-v.mant) \div Pow10(v.scale))

NoneNone == [exc |-> "none", minutes |-> Null, formatted |-> Null]

Parsed(minutes) == [exc |-> "none", minutes |-> Num(minutes), formatted |-> format_minutes(minutes)]

Raised(e) == [exc |-> e, minutes |-> Null, formatted |-> Null]

\* the try block: strptime by the format the AM/PM test selects
strptime_either(v, up) ==
    IF Contains2(up, "A", "M") \/ Contains2(up, "P", "M")
    THEN strptime_IMp(up)
    ELSE strptime_HM(v)

\* minutes = dt.hour * 60 + dt.minute, or the except branch
minutes_of(dt) == IF dt.ok THEN Parsed(dt.hour * 60 + dt.minute) ELSE NoneNone

\* exc names the exception that leaves the function, "none" when it returns
parse_time_to_minutes(value) ==
    IF value = Null THEN NoneNone
    ELSE IF IsIntOrFloat(value) THEN
        CASE value.t = "bool" -> Parsed(IF value.b THEN 1 ELSE 0)
          [] value.t = "num" -> Parsed(value.n)
          [] value.t = "float" /\ value.kind = "fin" -> Parsed(TruncFlt(value))
          [] value.t = "float" /\ value.kind = "inf" -> Raised("OverflowError")
          [] value.t = "float" /\ value.kind = "nan" -> Raised("ValueError")
    ELSE IF ~IsStr(value) THEN NoneNone
    ELSE minutes_of(strptime_either(Strip(value.s), UpperStr(Strip(value.s))))

-----------------------------------------------------------------------------
(* Hours normalizer: _find_first_key and parse_hours *)

RECURSIVE ffk_walk(_, _), ffk_walk_seq(_, _, _)
ffk_walk(n, key) ==
    IF IsObj(n) THEN
        IF HasKey(n, key) THEN Item(n, key) ELSE ffk_walk_seq(n.vals, 1, key)
    ELSE IF IsArr(n) THEN ffk_walk_seq(n.items, 1, key)
    ELSE Null

\* result = _walk(v); if result is not None: return result
ffk_walk_seq(vs, i, key) ==
    IF i > Len(vs) THEN Null
    ELSE LET r == ffk_walk(vs[i], key)
         IN IF r # Null THEN r ELSE ffk_walk_seq(vs, i + 1, key)

find_first_key(node, key) == ffk_walk(node, key)

\* str(day) of a key of the schedule
KeyStr(k) == [t |-> "keystr", k |-> k]

OpenTitle == Str(<<"O", "p", "e", "n">>)

SectionKeys == <<"startTime", "endTime", "sectionTitle", "startTimeFormatted",
                 "endTimeFormatted">>

NoSections == [exc |-> "none", out |-> <<>>]

\* the tail of the loop body: the exception a time raised, or the record
\* appended (none when a time is None)
section_record(st, en, title) ==
    IF st.exc # "none" THEN [exc |-> st.exc, out |-> <<>>]
    ELSE IF en.exc # "none" THEN [exc |-> en.exc, out |-> <<>>]
    ELSE IF st.minutes = Null \/ en.minutes = Null THEN NoSections
    ELSE [exc |-> "none",
          out |-> <<Obj(SectionKeys,
                        <<st.minutes, en.minutes, title, st.formatted, en.formatted>>)>>]

\* one pass of the loop body over a section
normalize_section(section) ==
    IF ~IsObj(section) THEN NoSections
    ELSE section_record(
            parse_time_to_minutes(Or(Get(section, "start"), Get(section, "openTime"))),
            parse_time_to_minutes(Or(Get(section, "end"), Get(section, "closeTime"))),
            Or(Or(Get(section, "sectionTitle"), Get(section, "label")), OpenTitle))

\* what the first pass and the later passes of a loop leave: the first
\* exception raised, else the appended records in order
Then(first, rest) ==
    IF first.exc # "none" THEN first
    ELSE IF rest.exc # "none" THEN rest
    ELSE [exc |-> "none", out |-> first.out \o rest.out]

RECURSIVE normalize_sections(_, _)
\* for section in sections: ...   (from the i-th on)
normalize_sections(sections, i) ==
    IF i > Len(sections) THEN NoSections
    ELSE Then(normalize_section(sections[i]), normalize_sections(sections, i + 1))

\* if normalized_sections: normalized.append({"dayRange": str(day), ...})
day_record(day, secs) ==
    IF secs.exc # "none" THEN secs
    ELSE IF secs.out # <<>>
    THEN [exc |-> "none",
          out |-> <<Obj(<<"dayRange", "sectionHours">>, <<KeyStr(day), Arr(secs.out)>>)>>]
    ELSE NoSections

\* one pass of the loop over the days
normalize_day(day, sections) ==
    IF IsArr(sections) THEN day_record(day, normalize_sections(sections.items, 1))
    ELSE NoSections

RECURSIVE normalize_days(_, _)
\* for day, sections in schedule.items(): ...   (from the i-th item on)
normalize_days(schedule, i) ==
    IF i > Len(schedule.keys) THEN NoSections
    ELSE Then(normalize_day(schedule.keys[i], schedule.vals[i]), normalize_days(schedule, i + 1))

\* a search that asks for `schedule` before `openingHours`
found_schedule_swapped(node) ==
    Or(Or(find_first_key(node, "schedule"), find_first_key(node, "openingHours")),
       find_first_key(node, "hoursOfOperation"))

\* the `schedule` that parse_hours goes on with after the `hours` pass-through
found_schedule(node) ==
    Or(Or(find_first_key(node, "openingHours"), find_first_key(node, "schedule")),
       find_first_key(node, "hoursOfOperation"))

\* a test that also asks every item for a dayRange
IsListOfDicts_with_dayRange(v) ==
    IsArr(v) /\ \A i \in 1..Len(v.items) : IsObj(v.items[i]) /\ HasKey(v.items[i], "dayRange")

\* isinstance(hours_raw, list) and all(isinstance(item, dict) for item in hours_raw)
IsListOfDicts(v) == IsArr(v) /\ \A i \in 1..Len(v.items) : IsObj(v.items[i])

\* whether parse_hours returns the pre-normalized `hours` list
hours_pass_through(node) == IsListOfDicts(find_first_key(node, "hours"))

\* parse_hours from `if not schedule` on
normalize_schedule(schedule) ==
    IF ~Truthy(schedule) THEN NoSections
    ELSE IF IsObj(schedule) THEN normalize_days(schedule, 1)
    ELSE NoSections

\* exc names the exception that leaves the function ("none": it returns `out`)
parse_hours(node) ==
    IF hours_pass_through(node)
    THEN [exc |-> "none", out |-> find_first_key(node, "hours").items]
    ELSE normalize_schedule(found_schedule(node))

-----------------------------------------------------------------------------------------------------------------------------------------------------
(* Bounded input domains *)

\* most keys of an object and most items of an array in the generated trees
MaxWidth == 2

\* longest generated price string
MaxStrLen == 3

\* largest number of minutes given as a numeric time
MaxMinutes == 1445

RECURSIVE SeqsUpTo(_, _)
\* the sequences over S of length at most n
SeqsUpTo(S, n) ==
    IF n = 0 THEN {<<>>}
    ELSE LET shorter == SeqsUpTo(S, n - 1)
         IN shorter \cup {Append(q, x) : q \in shorter, x \in S}

Distinct(q) == \A i, j \in 1..Len(q) : i # j => q[i] # q[j]

\* the key sequences an object can have: distinct keys, at most n of them
KeySeqs(K, n) == {q \in SeqsUpTo(K, n) : Distinct(q)}

\* the objects with at most n keys, from K, and values from V
Objs(K, V, n) == UNION {{Obj(ks, vs) : vs \in [1..Len(ks) -> V]} : ks \in KeySeqs(K, n)}

X == Str(<<"X">>)
Y == Str(<<"Y">>)

\* find_first_value: candidate keys name and title, containers a and b
FindLeaves == {Null, X, Y}
FindInner == Objs({"name", "title"}, FindLeaves, MaxWidth)
FindRootKeys == {"a", "b", "name"}
FindValues == FindLeaves \cup FindInner
FindKeyLists == {<<"name", "title">>, <<"title">>}

\* _looks_like_menu_item
MenuKeys == {"title", "name", "price", "displayPrice", "amount"}
MenuLeaves == {Null, Num(5), Str(<<>>), Str(<<"B">>)}

\* _extract_price: the choice of the key, and the cleaning of the string
PriceKeys == {"price", "unitPrice", "amount", "priceString", "displayPrice", "formattedPrice"}
PriceChars == {"$", "1", ".", "5"}
SpecExample == Str(<<"$", "1", "2", ".", "5", "0">>)
PriceLeaves == {Null, Num(5), Num(0), Str(<<>>), Str(<<"$">>), Str(<<"$", "3">>), SpecExample}

\* parse_location
LocLeaves == {Num(1), Num(2), Bool(TRUE)}
LocInner == Objs({"latitude", "longitude"}, LocLeaves, MaxWidth)
LocRootKeys == {"a", "latitude", "longitude"}
LocValues == {Null, Num(1), Num(2), Str(<<"x">>)} \cup LocInner

\* _guess_restaurant_node: Objects with one or two signal keys, some of them
\* one level further down, under containers a and b
NodeInner == Objs({"storeUuid", "merchant"}, {Num(1), Num(2)}, MaxWidth)
               \cup {Obj(<<"restaurantId">>, <<Num(1)>>), Obj(<<"restaurantUuid">>, <<Num(2)>>)}
NodeDeep == {Obj(<<"c">>, <<Obj(<<"merchant">>, <<Num(2)>>)>>),
             Arr(<<Obj(<<"restaurantId">>, <<Num(2)>>)>>),
             Obj(<<"storeUuid", "c">>, <<Num(1), Obj(<<"merchant", "storeUuid">>, <<Num(1), Num(2)>>)>>)}
NodeLeaves == {Null, Num(1)}
NodeValues == NodeLeaves \cup NodeInner \cup NodeDeep
NodeRootKeys == {"a", "b", "merchant"}

\* time values: numbers, non-finite floats, strings of an hour, a colon, a
\* minute and an AM/PM marker (or parts of these), and values of other types
HourParts == {<<>>, <<"0">>, <<"4">>, <<"0", "4">>, <<"1", "2">>, <<"1", "3">>,
              <<"2", "3">>, <<"2", "4">>}
MinuteParts == {<<>>, <<"5">>, <<"0", "0">>, <<"5", "9">>, <<"6", "0">>}
Separators == {<<":">>, <<>>}
Markers == {<<>>, <<" ", "A", "M">>, <<" ", "P", "M">>, <<"A", "M">>, <<" ", "p", "m">>,
            <<" ", " ", "A", "M">>, <<" ", "x", "M">>, <<" ">>}
Paddings == {<<>>, <<" ">>}
TimeOthers == {Null, Bool(TRUE), Bool(FALSE), Flt(905, 1), Flt(-5, 1), FltInf, FltNan,
               Arr(<<>>), Arr(<<Num(60)>>), Obj(<<>>, <<>>)}

\* the time of day of a minutes value on the 24-hour clock, as "HH:MM"
HHMM(n) == TwoDigits((n \div 60) % 24) \o <<":">> \o TwoDigits(n % 60)

\* parse_hours: sections of one day, and the choice of the schedule
T_4am == Str(<<"4", ":", "0", "0", " ", "A", "M">>)
T_0400 == Str(<<"0", "4", ":", "0", "0">>)
T_junk == Str(<<"x">>)
SectionTimeKeys == {"start", "end", "openTime", "closeTime"}
SectionTimes == {Null, Num(0), Num(60), Num(MaxMinutes), Num(-1), T_4am, T_0400, T_junk,
                 FltInf, Str(<<>>)}
PairSections == Objs({"start", "end"}, {Null, Num(60), T_junk}, MaxWidth)
DayOf(day, sections) == Obj(<<day>>, <<Arr(sections)>>)
Section_1_2 == Obj(<<"start", "end">>, <<Num(60), Num(120)>>)
Section_3_4 == Obj(<<"openTime", "closeTime", "label">>, <<Num(180), Num(240), X>>)
SchedMon == DayOf("Mon", <<Section_1_2>>)
SchedTue == DayOf("Tue", <<Section_3_4>>)
SchedWed == Obj(<<"Wed", "Thu">>, <<Arr(<<Section_1_2, Num(1), Section_3_4>>), Num(7)>>)
ScheduleValues == {Null, Obj(<<>>, <<>>), Arr(<<Num(1)>>), Num(0), SchedMon, SchedTue, SchedWed}
ScheduleKeys == {"openingHours", "schedule", "hoursOfOperation"}
ScheduleInner == Objs(ScheduleKeys, {Null, Obj(<<>>, <<>>), SchedTue, SchedWed}, 1)
HoursRootKeys == ScheduleKeys \cup {"a"}
HoursValues == ScheduleValues \cup ScheduleInner
PreNormalized == Arr(<<Obj(<<"dayRange">>, <<X>>), Obj(<<>>, <<>>)>>)
HoursListKeys == {"hours", "schedule", "a"}
HoursListValues == {Null, Arr(<<>>), PreNormalized, Arr(<<Obj(<<>>, <<>>), Num(1)>>), SchedMon,
                    Obj(<<"hours">>, <<PreNormalized>>), Obj(<<"hours">>, <<Null>>)}

-----------------------------------------------------------------------------
(* The extraction functions, each called once on an input of its domain *)

NoResult == [t |-> "none"]

RunIdle ==
    /\ no_menu = FALSE
    /\ settings_include_menu = TRUE
    /\ concurrency = 1
    /\ max_attempts = 0
    /\ input = <<>>
    /\ include_menu_default = TRUE
    /\ urls = <<>>
    /\ main_pc = "idle"
    /\ next_item = 1
    /\ worker = <<>>
    /\ attempts = <<>>
    /\ outcomes = <<>>
    /\ called_menu = <<>>
    /\ parsed = <<>>
    /\ returned = <<>>
    /\ collected = {}
    /\ results = <<>>

Init ==
    /\ op = "idle"
    /\ arg = Null
    /\ keys = <<>>
    /\ result = NoResult
    /\ RunIdle

Do_find_first_value(node, ks) ==
    /\ arg' = node
    /\ keys' = ks
    /\ result' = find_first_value(node, ks)
    /\ op' = "find_first_value"
    /\ UNCHANGED run_vars

Call_find_first_value ==
    /\ op = "idle"
    /\ \E ks \in FindKeyLists :
          \/ \E oks \in KeySeqs(FindRootKeys, MaxWidth) :
                \E vs \in [1..Len(oks) -> FindValues] : Do_find_first_value(Obj(oks, vs), ks)
          \/ \E n \in 0..MaxWidth :
                \E items \in [1..n -> FindInner] : Do_find_first_value(Arr(items), ks)
          \/ \E leaf \in FindLeaves : Do_find_first_value(leaf, ks)

Do_guess_restaurant_node(root) ==
    /\ arg' = root
    /\ result' = guess_restaurant_node(root)
    /\ op' = "guess_restaurant_node"
    /\ UNCHANGED <<keys, run_vars>>

Call_guess_restaurant_node ==
    /\ op = "idle"
    /\ \/ \E oks \in KeySeqs(NodeRootKeys, MaxWidth) :
             \E vs \in [1..Len(oks) -> NodeValues] : Do_guess_restaurant_node(Obj(oks, vs))
       \/ \E n \in 0..MaxWidth :
             \E items \in [1..n -> NodeValues] : Do_guess_restaurant_node(Arr(items))

Do_looks_like_menu_item(node) ==
    /\ arg' = node
    /\ result' = looks_like_menu_item(node)
    /\ op' = "looks_like_menu_item"
    /\ UNCHANGED <<keys, run_vars>>

Call_looks_like_menu_item ==
    /\ op = "idle"
    /\ \E oks \in KeySeqs(MenuKeys, MaxWidth + 1) :
          \E vs \in [1..Len(oks) -> MenuLeaves] : Do_looks_like_menu_item(Obj(oks, vs))

Do_extract_price(node) ==
    /\ arg' = node
    /\ result' = extract_price(node)
    /\ op' = "extract_price"
    /\ UNCHANGED <<keys, run_vars>>

Call_extract_price ==
    /\ op = "idle"
    /\ \/ \E oks \in KeySeqs(PriceKeys, MaxWidth) :
             \E vs \in [1..Len(oks) -> PriceLeaves] : Do_extract_price(Obj(oks, vs))
       \/ \E k \in {"priceString", "formattedPrice"}, n \in 0..MaxStrLen :
             \E chars \in [1..n -> PriceChars] : Do_extract_price(Obj(<<k>>, <<Str(chars)>>))

Do_parse_location(node) ==
    /\ arg' = node
    /\ result' = parse_location(node)
    /\ op' = "parse_location"
    /\ UNCHANGED <<keys, run_vars>>

Call_parse_location ==
    /\ op = "idle"
    /\ \/ \E oks \in KeySeqs(LocRootKeys, MaxWidth) :
             \E vs \in [1..Len(oks) -> LocValues] : Do_parse_location(Obj(oks, vs))
       \/ \E n \in 0..MaxWidth :
             \E items \in [1..n -> LocInner] : Do_parse_location(Arr(items))

Do_parse_hours(node) ==
    /\ arg' = node
    /\ result' = parse_hours(node)
    /\ op' = "parse_hours"
    /\ UNCHANGED <<keys, run_vars>>

Call_parse_hours ==
    /\ op = "idle"
    /\ \/ \E sks \in KeySeqs(SectionTimeKeys, MaxWidth) :
             \E vs \in [1..Len(sks) -> SectionTimes] :
                Do_parse_hours(Obj(<<"openingHours">>, <<DayOf("Mon", <<Obj(sks, vs)>>)>>))
       \/ \E s1, s2 \in PairSections :
             Do_parse_hours(Obj(<<"schedule">>, <<DayOf("Mon", <<s1, s2>>)>>))
       \/ \E oks \in KeySeqs(HoursRootKeys, MaxWidth) :
             \E vs \in [1..Len(oks) -> HoursValues] : Do_parse_hours(Obj(oks, vs))
       \/ \E oks \in KeySeqs(HoursListKeys, MaxWidth) :
             \E vs \in [1..Len(oks) -> HoursListValues] : Do_parse_hours(Obj(oks, vs))

Do_parse_time_to_minutes(value) ==
    /\ arg' = value
    /\ result' = parse_time_to_minutes(value)
    /\ op' = "parse_time_to_minutes"
    /\ UNCHANGED <<keys, run_vars>>

Call_parse_time_to_minutes ==
    /\ op = "idle"
    /\ \/ \E pad \in Paddings, h \in HourParts, sep \in Separators, m \in MinuteParts,
            mk \in Markers : Do_parse_time_to_minutes(Str(pad \o h \o sep \o m \o mk))
       \/ \E n \in (-61)..MaxMinutes : Do_parse_time_to_minutes(Num(n))
       \/ \E n \in 0..MaxMinutes : Do_parse_time_to_minutes(Str(HHMM(n)))
       \/ \E n \in 0..MaxMinutes : Do_parse_time_to_minutes(format_minutes(n))
       \/ \E other \in TimeOthers : Do_parse_time_to_minutes(other)

Next ==
    \/ Call_find_first_value
    \/ Call_guess_restaurant_node
    \/ Call_looks_like_menu_item
    \/ Call_extract_price
    \/ Call_parse_location
    \/ Call_parse_hours
    \/ Call_parse_time_to_minutes

Spec == Init /\ [][Next]_vars

-----------------------------------------------------------------------------
(* What the claims speak of: the Objects of a tree in pre-order *)

RECURSIVE Preorder(_), PreorderSeq(_, _)
\* every Object of the tree, in depth-first pre-order
Preorder(v) ==
    IF IsObj(v) THEN <<v>> \o PreorderSeq(v.vals, 1)
    ELSE IF IsArr(v) THEN PreorderSeq(v.items, 1)
    ELSE <<>>

PreorderSeq(vs, i) ==
    IF i > Len(vs) THEN <<>> ELSE Preorder(vs[i]) \o PreorderSeq(vs, i + 1)

\* the index of the first element of q that satisfies P, 0 if none does
FirstIndex(q, P(_)) ==
    IF \E i \in 1..Len(q) : P(q[i])
    THEN CHOOSE i \in 1..Len(q) : P(q[i]) /\ \A j \in 1..(i - 1) : ~P(q[j])
    ELSE 0

HasAnyKey(n, ks) == \E i \in 1..Len(ks) : HasKey(n, ks[i])

\* the value of the earliest key of ks that n contains
EarliestKeyValue(n, ks) ==
    Item(n, ks[CHOOSE i \in 1..Len(ks) :
                  HasKey(n, ks[i]) /\ \A j \in 1..(i - 1) : ~HasKey(n, ks[j])])

\* the value on the first Object, in pre-order, that contains a key of ks
GreedyFirst(v, ks) ==
    LET objs == Preorder(v)
        i == FirstIndex(objs, LAMBDA n : HasAnyKey(n, ks))
    IN IF i = 0 THEN Null ELSE EarliestKeyValue(objs[i], ks)

\* C1: find_first returns the value stored on the first Object, in pre-order,
\* that contains a candidate key (the earliest key of the caller's list on that
\* Object), and never a value of an Object later in traversal order.
C1_GreedyFirst ==
    op = "find_first_value" => result = GreedyFirst(arg, keys)

\* C2: is_menu_item is true iff (the value of title is a string or the value of
\* name is a string) and one of the price-signal keys is present.
C2_MenuItemIff ==
    op = "looks_like_menu_item" =>
        (result <=> /\ IsStr(Get(arg, "title")) \/ IsStr(Get(arg, "name"))
                    /\ HasAnyKey(arg, <<"price", "priceString", "displayPrice", "unitPrice">>))

-----------------------------------------------------------------------------
(* parse_hours: the choice of the schedule (C4) *)

KeyInTree(v, k) == FirstIndex(Preorder(v), LAMBDA n : HasKey(n, k)) # 0

HoursKeyOrder == <<"openingHours", "schedule", "hoursOfOperation">>

\* the schedule that a found value v stands for: a day-keyed Object is
\* normalized, any other shape gives the empty sequence
HoursOf(v) == IF IsObj(v) THEN normalize_days(v, 1) ELSE NoSections

\* C4 as stated: the first of the three keys that occurs in the tree decides,
\* whatever its value; none occurring gives the empty sequence.
C4_FirstFoundWins ==
    (op = "parse_hours" /\ ~hours_pass_through(arg)) =>
        LET i == FirstIndex(HoursKeyOrder, LAMBDA k : KeyInTree(arg, k))
        IN result = IF i = 0 THEN NoSections
                    ELSE HoursOf(find_first_key(arg, HoursKeyOrder[i]))

\* C4, amended: the first of the three keys whose search result is truthy (not
\* null, false, 0, nor an empty string, Array or Object) decides; a truthy
\* value that is no Object is not skipped and gives the empty sequence; no
\* truthy search result gives the empty sequence.
C4_FirstTruthyWins ==
    (op = "parse_hours" /\ ~hours_pass_through(arg)) =>
        LET i == FirstIndex(HoursKeyOrder, LAMBDA k : Truthy(find_first_key(arg, k)))
        IN result = IF i = 0 THEN NoSections
                    ELSE HoursOf(find_first_key(arg, HoursKeyOrder[i]))

\* an empty openingHours is passed over for the schedule found next
C4_Witness ==
    /\ op = "parse_hours"
    /\ ~hours_pass_through(arg)
    /\ HasKey(arg, "openingHours")
    /\ Get(arg, "openingHours") = Obj(<<>>, <<>>)
    /\ Get(arg, "schedule") = SchedMon
    /\ result = normalize_days(SchedMon, 1)
    /\ result.out # <<>>

-----------------------------------------------------------------------------
(* parse_hours: the emitted sections (C5) *)

MinutesPerDay == 24 * 60

\* the SectionHours records of a parse_hours result that was built, not passed through
EmittedSections(r) ==
    UNION {{r.out[d].vals[2].items[i] : i \in 1..Len(r.out[d].vals[2].items)} :
              d \in 1..Len(r.out)}

\* C5: every SectionHours built from a day-keyed schedule has integer startTime
\* and endTime (never null), and startTime within 0..1439.
C5_ValidMinutes ==
    (op = "parse_hours" /\ ~hours_pass_through(arg) /\ result.exc = "none") =>
        \A sec \in EmittedSections(result) :
            /\ Get(sec, "startTime").t = "num"
            /\ Get(sec, "endTime").t = "num"
            /\ Get(sec, "startTime").n \in 0..(MinutesPerDay - 1)

-----------------------------------------------------------------------------
(* parse_location (C6) *)

\* a JSON number: an integer or a float, not a boolean
IsJsonNumber(v) == v.t \in {"num", "float"}

HasNumericPair(n) ==
    /\ HasKey(n, "latitude")
    /\ HasKey(n, "longitude")
    /\ IsJsonNumber(Get(n, "latitude"))
    /\ IsJsonNumber(Get(n, "longitude"))

\* C6: latitude and longitude are both null or both numbers read from the first
\* Object, in pre-order, that has both as numeric values; without such an
\* Object every field is null except locationType, which is "DEFAULT".
C6_SameObject ==
    op = "parse_location" =>
        LET objs == Preorder(arg)
            i == FirstIndex(objs, HasNumericPair)
        IN IF i = 0
           THEN result = [address |-> Null, city |-> Null, postalCode |-> Null,
                          country |-> Null, latitude |-> Null, longitude |-> Null,
                          locationType |-> DefaultLocationType]
           ELSE /\ result.latitude = Get(objs[i], "latitude")
                /\ result.longitude = Get(objs[i], "longitude")
                /\ IsJsonNumber(result.latitude)
                /\ IsJsonNumber(result.longitude)

-----------------------------------------------------------------------------
(* Time parser (C10) *)

\* C10: parse_time never raises, and returns either a pair with both components
\* non-null or the pair (null, null).
C10_NeverRaises ==
    op = "parse_time_to_minutes" =>
        /\ result.exc = "none"
        /\ \/ result.minutes # Null /\ result.formatted # Null
           \/ result.minutes = Null /\ result.formatted = Null

-----------------------------------------------------------------------------
(* Price extractor: the string fallback (C7) *)

StringPriceKeys == <<"priceString", "displayPrice", "formattedPrice">>

CountOf(q, P(_)) == Cardinality({i \in 1..Len(q) : P(q[i])})

\* the number a cleaned string of digits and at most one point writes
DecimalOf(kept) ==
    LET p == IF \E i \in 1..Len(kept) : kept[i] = "." THEN DotPos(kept) ELSE Len(kept) + 1
        whole == SubSeq(kept, 1, p - 1)
        frac == SubSeq(kept, p + 1, Len(kept))
    IN NormFlt(DigitsToInt(whole, 1, 0) * Pow10(Len(frac)) + DigitsToInt(frac, 1, 0),
               Len(frac))

\* the price a value stands for: of a string, the number left when every
\* character that is no digit and no point is removed; null when the value is
\* no string, no digit remains or what remains does not parse
PriceOfString(v) ==
    IF ~IsStr(v) THEN Null
    ELSE LET kept == [i \in 1..CountOf(v.s, IsDigitOrDot) |->
                         v.s[CHOOSE j \in 1..Len(v.s) :
                                /\ IsDigitOrDot(v.s[j])
                                /\ CountOf(SubSeq(v.s, 1, j), IsDigitOrDot) = i]]
         IN IF CountOf(kept, IsDigit) = 0 \/ CountOf(kept, IsDot) > 1 THEN Null
            ELSE DecimalOf(kept)

FallbackPrice(n) ==
    LET i == FirstIndex(StringPriceKeys, LAMBDA k : Truthy(Get(n, k)))
    IN IF i = 0 THEN Null ELSE PriceOfString(Get(n, StringPriceKeys[i]))

\* C7 as stated: the string fallback is used only if none of price, unitPrice,
\* amount is present on the node, and then gives the number parsed from the
\* string keys taken in priority order.
C7_FallbackOnlyIfAbsent ==
    op = "extract_price" =>
        /\ result.branch = "string" <=> ~HasAnyKey(arg, NumericPriceKeys)
        /\ result.branch = "string" => result.value = FallbackPrice(arg)

\* C7, amended: the string fallback is used iff none of price, unitPrice,
\* amount is present or the first of them that is present holds null; it takes
\* the first of priceString, displayPrice, formattedPrice whose value is truthy
\* and returns the number parsed from the cleaned string, null if there is no
\* such value, it is no string, no digit remains or the rest does not parse.
C7_FallbackIfAbsentOrNull ==
    op = "extract_price" =>
        /\ result.branch = "string" <=>
              \/ ~HasAnyKey(arg, NumericPriceKeys)
              \/ EarliestKeyValue(arg, NumericPriceKeys) = Null
        /\ result.branch = "string" => result.value = FallbackPrice(arg)

\* {"price": null, "priceString": "$12.50"} gives 12.5 by the fallback
C7_Witness ==
    /\ op = "extract_price"
    /\ HasKey(arg, "price")
    /\ Get(arg, "price") = Null
    /\ Get(arg, "priceString") = SpecExample
    /\ result = [branch |-> "string", value |-> Flt(125, 1)]

-----------------------------------------------------------------------------
(* The run: main, process_single, scrape_restaurant, _fetch_with_retries *)

\* most items of the input file
MaxUrls == 2

\* largest configured retry.maxAttempts
MaxAttempts == 2

U == Str(<<"u">>)

\* an item of the input file: a plain URL, an object with a url and possibly its
\* own scrapeMenu, or something load_input_urls passes over
InputItems == {U,
               Obj(<<"url">>, <<U>>),
               Obj(<<"url", "scrapeMenu">>, <<U, Bool(TRUE)>>),
               Obj(<<"url", "scrapeMenu">>, <<U, Bool(FALSE)>>),
               Num(1)}

\* one item of load_input_urls's loop: the entries it appends
load_item(item, include_menu) ==
    IF IsStr(item) THEN <<[url |-> item, scrapeMenu |-> include_menu]>>
    ELSE IF IsObj(item) /\ HasKey(item, "url")
    THEN <<[url |-> Item(item, "url"),
            scrapeMenu |-> Truthy(IF HasKey(item, "scrapeMenu")
                                  THEN Item(item, "scrapeMenu")
                                  ELSE Bool(include_menu))]>>
    ELSE <<>>

RECURSIVE load_input_urls_from(_, _, _)
load_input_urls_from(data, i, include_menu) ==
    IF i > Len(data) THEN <<>>
    ELSE load_item(data[i], include_menu) \o load_input_urls_from(data, i + 1, include_menu)

load_input_urls(data, include_menu) == load_input_urls_from(data, 1, include_menu)

\* include_menu_default = bool(settings.get(..)); if args.no_menu: include_menu_default = False
menu_default(setting, flag) == IF flag THEN FALSE ELSE setting

Items == 1..Len(urls)

Running == {i \in Items : worker[i] \in {"fetching", "parsing"}}

InitRun ==
    /\ op = "idle"
    /\ arg = Null
    /\ keys = <<>>
    /\ result = NoResult
    /\ \/ /\ no_menu \in BOOLEAN
          /\ settings_include_menu \in BOOLEAN
          /\ input \in SeqsUpTo(InputItems, MaxUrls)
          /\ concurrency = 1
          /\ max_attempts = 1
       \/ /\ no_menu = FALSE
          /\ settings_include_menu = TRUE
          /\ input \in SeqsUpTo({U}, MaxUrls)
          /\ concurrency \in 1..(MaxUrls + 1)
          /\ max_attempts \in 0..MaxAttempts
    /\ include_menu_default = TRUE
    /\ urls = <<>>
    /\ main_pc = "start"
    /\ next_item = 1
    /\ worker = <<>>
    /\ attempts = <<>>
    /\ outcomes = <<>>
    /\ called_menu = <<>>
    /\ parsed = <<>>
    /\ returned = <<>>
    /\ collected = {}
    /\ results = <<>>

\* main up to the loop: the flag, the input file, the empty result list
Main_setup ==
    /\ main_pc = "start"
    /\ include_menu_default' = menu_default(settings_include_menu, no_menu)
    /\ urls' = load_input_urls(input, menu_default(settings_include_menu, no_menu))
    /\ worker' = [i \in 1..Len(urls') |-> "pending"]
    /\ attempts' = [i \in 1..Len(urls') |-> 0]
    /\ outcomes' = [i \in 1..Len(urls') |-> <<>>]
    /\ called_menu' = [i \in 1..Len(urls') |-> "not called"]
    /\ parsed' = [i \in 1..Len(urls') |-> "not reached"]
    /\ returned' = [i \in 1..Len(urls') |-> "nothing yet"]
    /\ main_pc' = "run"
    /\ UNCHANGED <<pure_vars, config_vars, next_item, collected, results>>

\* whether item i is the next to be processed: the loop's item when
\* concurrency <= 1, else the head of the executor's queue when a thread is free
may_start(i) ==
    IF concurrency <= 1
    THEN i = next_item
    ELSE /\ \A j \in 1..(i - 1) : worker[j] # "pending"
         /\ Cardinality(Running) < concurrency

\* process_single calls parser.scrape_restaurant(url, include_menu=scrape_menu),
\* which enters _fetch_with_retries
Start(i) ==
    /\ main_pc = "run"
    /\ worker[i] = "pending"
    /\ may_start(i)
    /\ called_menu' = [called_menu EXCEPT ![i] = IF urls[i].scrapeMenu THEN "true" ELSE "false"]
    /\ worker' = [worker EXCEPT ![i] = "fetching"]
    /\ UNCHANGED <<pure_vars, config_vars, include_menu_default, urls, main_pc, next_item,
                   attempts, outcomes, parsed, returned, collected, results>>

\* a loop that goes on to attempt max_attempts + 1
may_request_once_more(i) == attempts[i] <= max_attempts

\* for attempt in range(1, self.config.max_attempts + 1)
may_request(i) == attempts[i] < max_attempts

\* one pass of the retry loop: session.get and raise_for_status succeed and the
\* text is returned, or an exception is caught and the loop goes on
Request(i) ==
    /\ worker[i] = "fetching"
    /\ may_request(i)
    /\ \E outcome \in {"ok", "fail"} :
          /\ outcomes' = [outcomes EXCEPT ![i] = Append(@, outcome)]
          /\ worker' = [worker EXCEPT ![i] = IF outcome = "ok" THEN "parsing" ELSE "fetching"]
    /\ attempts' = [attempts EXCEPT ![i] = @ + 1]
    /\ UNCHANGED <<pure_vars, config_vars, include_menu_default, urls, main_pc, next_item,
                   called_menu, parsed, returned, collected, results>>

\* the loop is over: _fetch_with_retries returns None, so does scrape_restaurant,
\* and process_single logs and returns None
FetchExhausted(i) ==
    /\ worker[i] = "fetching"
    /\ ~may_request(i)
    /\ worker' = [worker EXCEPT ![i] = "done"]
    /\ returned' = [returned EXCEPT ![i] = "none"]
    /\ UNCHANGED <<pure_vars, config_vars, include_menu_default, urls, main_pc, next_item,
                   attempts, outcomes, called_menu, parsed, collected, results>>

\* how the try block can end: the document is returned, _extract_json_payload
\* raises ValueError (no JSON blob in the page), or the building of the
\* document raises
TryOutcomes == {"document", "no payload", "build error"}

\* a scrape that goes back to fetching when the page gave no document
after_try_block_refetch(i, outcome) ==
    IF outcome # "document" /\ attempts[i] < max_attempts THEN "fetching" ELSE "done"

\* return restaurant; except Exception: return None -- the call is over either way
after_try_block(i, outcome) == "done"

\* the try block of scrape_restaurant: the document, or an exception of the
\* payload extraction or of the document building, caught and turned into None
Parse(i) ==
    /\ worker[i] = "parsing"
    /\ \E outcome \in TryOutcomes :
          /\ parsed' = [parsed EXCEPT ![i] = outcome]
          /\ returned' = [returned EXCEPT ![i] = IF outcome = "document" THEN "doc" ELSE "none"]
          /\ worker' = [worker EXCEPT ![i] = after_try_block(i, outcome)]
    /\ UNCHANGED <<pure_vars, config_vars, include_menu_default, urls, main_pc, next_item,
                   attempts, outcomes, called_menu, collected, results>>

\* a collection that appends whatever came back
appends_always(i) == TRUE

\* if data: results.append(data)   (a document is a non-empty dict)
appends(i) == returned[i] = "doc"

\* main takes the result of item i: the call returns (concurrency <= 1) or
\* as_completed yields its future
Collect(i) ==
    /\ main_pc = "run"
    /\ worker[i] = "done"
    /\ i \notin collected
    /\ concurrency <= 1 => i = next_item
    /\ results' = IF appends(i) THEN Append(results, i) ELSE results
    /\ collected' = collected \cup {i}
    /\ next_item' = IF concurrency <= 1 THEN next_item + 1 ELSE next_item
    /\ UNCHANGED <<pure_vars, config_vars, include_menu_default, urls, main_pc, worker,
                   attempts, outcomes, called_menu, parsed, returned>>

\* the loop is over: the results are written (if any) and main returns 0
Finish ==
    /\ main_pc = "run"
    /\ collected = Items
    /\ main_pc' = "done"
    /\ UNCHANGED <<pure_vars, config_vars, include_menu_default, urls, next_item, worker,
                   attempts, outcomes, called_menu, parsed, returned, collected, results>>

NextRun ==
    \/ Main_setup
    \/ \E i \in Items : Start(i)
    \/ \E i \in Items : Request(i)
    \/ \E i \in Items : FetchExhausted(i)
    \/ \E i \in Items : Parse(i)
    \/ \E i \in Items : Collect(i)
    \/ Finish

SpecRun == InitRun /\ [][NextRun]_vars

-----------------------------------------------------------------------------
(* Claims about the run *)

Called == {i \in Items : called_menu[i] # "not called"}

\* C3: with --no-menu, every call of scrape_restaurant gets include_menu false,
\* whatever the input item says, an object with its own scrapeMenu included.
C3_NoMenuDisablesAll ==
    no_menu => \A i \in Called : called_menu[i] = "false"

AllFailed(q) == \A j \in 1..Len(q) : q[j] = "fail"

\* the requests of item i before its last one
Earlier(i) == SubSeq(outcomes[i], 1, Len(outcomes[i]) - 1)

\* C8: for every URL at most max_attempts requests are issued, every request
\* but the last one issued has failed (so a further request follows a failure
\* only, and none follows a success), a URL whose max_attempts requests all
\* failed yields None, and main ends only when every URL has been processed,
\* the ones after a failed URL included.
C8_BoundedRetries ==
    /\ \A i \in Items :
          /\ Len(outcomes[i]) <= max_attempts
          /\ Len(outcomes[i]) = attempts[i]
          /\ AllFailed(Earlier(i))
          /\ worker[i] = "parsing" =>
                Len(outcomes[i]) > 0 /\ outcomes[i][Len(outcomes[i])] = "ok"
          /\ (worker[i] = "done" /\ AllFailed(outcomes[i])) =>
                Len(outcomes[i]) = max_attempts /\ returned[i] = "none"
    /\ main_pc = "done" => \A i \in Items : worker[i] = "done"

\* a first URL used up two or more attempts and gave None, a later URL was
\* fetched at its second attempt and gave its document, and main has ended
C8_Witness ==
    /\ main_pc = "done"
    /\ max_attempts >= 2
    /\ Len(urls) >= 2
    /\ Len(outcomes[1]) = max_attempts
    /\ AllFailed(outcomes[1])
    /\ returned[1] = "none"
    /\ outcomes[2] = <<"fail", "ok">>
    /\ returned[2] = "doc"

Occurrences(q, x) == Cardinality({k \in 1..Len(q) : q[k] = x})

\* C9: a URL whose worker fails (all fetches failed, or the payload or the
\* document raised) adds nothing to the results and stops neither main nor the
\* other URLs: whatever the interleaving, sequential or pooled, the results never
\* hold anything but one document per URL that gave one, and when main ends they
\* hold exactly one document for each such URL, every URL having been processed.
C9_FailureIsolation ==
    /\ \A i \in Items :
          Occurrences(results, i) =
             IF i \in collected /\ returned[i] = "doc" THEN 1 ELSE 0
    /\ \A k \in 1..Len(results) : results[k] \in Items
    /\ main_pc = "done" =>
          /\ collected = Items
          /\ \A i \in Items : worker[i] = "done" /\ returned[i] \in {"doc", "none"}
          /\ Len(results) = Cardinality({i \in Items : returned[i] = "doc"})

\* a pooled run has ended in which the first URL was fetched and then failed in
\* the try block, and the second gave the only document
C9_Witness ==
    /\ main_pc = "done"
    /\ concurrency > 1
    /\ Len(urls) = 2
    /\ outcomes[1] = <<"ok">>
    /\ returned[1] = "none"
    /\ returned[2] = "doc"
    /\ results = <<2>>

-----------------------------------------------------------------------------
(* Time parser: the round trip (C11) *)

\* C11: for every minutes value m in 0..1439, parse_time of the 24-hour string
\* "HH:MM" of m returns m, with the text that formatting m gives; and parse_time
\* of that text (the 12-hour form _format_minutes writes) returns m as well.
C11_RoundTrip ==
    op = "parse_time_to_minutes" =>
        \A m \in 0..(MinutesPerDay - 1) :
            (arg = Str(HHMM(m)) \/ arg = format_minutes(m)) =>
                result = [exc |-> "none", minutes |-> Num(m), formatted |-> format_minutes(m)]

\* "23:59" has been parsed to 1439, "11:59 PM"
C11_Witness ==
    /\ op = "parse_time_to_minutes"
    /\ arg = Str(<<"2", "3", ":", "5", "9">>)
    /\ arg = Str(HHMM(MinutesPerDay - 1))
    /\ result.minutes = Num(MinutesPerDay - 1)
    /\ result.formatted = Str(<<"1", "1", ":", "5", "9", " ", "P", "M">>)

-----------------------------------------------------------------------------
(* parse_hours: the pre-normalized list (C12) *)

\* what the single-key search for `hours` resolves to: the value of `hours` on
\* the first Object, in pre-order, that has the key
HoursResolved(v) == GreedyFirst(v, <<"hours">>)

AllObjects(items) == \A i \in 1..Len(items) : IsObj(items[i])

\* C12: when the search for `hours` resolves to an Array whose elements are all
\* Objects, parse_hours returns the elements of that Array, in order and
\* unchanged, whatever openingHours, schedule or hoursOfOperation the tree has.
C12_PassThrough ==
    (op = "parse_hours" /\ IsArr(HoursResolved(arg)) /\ AllObjects(HoursResolved(arg).items)) =>
        result = [exc |-> "none", out |-> HoursResolved(arg).items]

\* a list of two Objects that are no DaySchedule came back as it was, next to
\* a schedule that would have given Monday
C12_Witness ==
    /\ op = "parse_hours"
    /\ arg = Obj(<<"schedule", "hours">>, <<SchedMon, PreNormalized>>)
    /\ normalize_schedule(found_schedule(arg)).out # <<>>
    /\ result.out = <<Obj(<<"dayRange">>, <<X>>), Obj(<<>>, <<>>)>>

-----------------------------------------------------------------------------
(* The restaurant node (C13) *)

HasSignal(n) == HasAnyKey(n, <<"storeUuid", "restaurantUuid", "restaurantId", "merchant">>)

\* C13: locate returns the first Object, in pre-order over the whole tree, that
\* has one of the four signal keys, however many of them later Objects have;
\* without such an Object it returns the root if the root is an Object, else null.
C13_FirstSignalObject ==
    op = "guess_restaurant_node" =>
        LET objs == Preorder(arg)
            i == FirstIndex(objs, HasSignal)
        IN result = IF i # 0 THEN objs[i]
                    ELSE IF IsObj(arg) THEN arg
                    ELSE Null

\* an Object with one signal key, found below a, was returned although its later
\* sibling has two
C13_Witness ==
    /\ op = "guess_restaurant_node"
    /\ arg = Obj(<<"a", "b">>,
                 <<Obj(<<"c">>, <<Obj(<<"merchant">>, <<Num(2)>>)>>),
                   Obj(<<"storeUuid", "merchant">>, <<Num(1), Num(1)>>)>>)
    /\ result = Obj(<<"merchant">>, <<Num(2)>>)

-----------------------------------------------------------------------------
(* No retry after a response (C14) *)

\* the last request of item i got a response
Responded(i) == Len(outcomes[i]) > 0 /\ outcomes[i][Len(outcomes[i])] = "ok"

TryFailed(i) == parsed[i] \in {"no payload", "build error"}

\* once the try block has failed for a URL, its call is over with None, its one
\* response was its last request, and no document of it is among the results
SkippedAfterResponse ==
    \A i \in Items :
        TryFailed(i) =>
            /\ worker[i] = "done"
            /\ returned[i] = "none"
            /\ Responded(i)
            /\ attempts[i] = Len(outcomes[i])
            /\ Occurrences(results, i) = 0

\* no step issues a request for a URL that has got a response
NoRequestAfterResponse ==
    \A i \in Items :
        Responded(i) => outcomes'[i] = outcomes[i] /\ attempts'[i] = attempts[i]

\* C14: once a fetch for a URL has got a response, no further request is issued
\* for that URL, also when no JSON blob can be extracted from the page or the
\* building of the document fails; scrape_restaurant then returns null and the
\* URL gives no document.
C14_NoRetryAfterResponse == [][NoRequestAfterResponse]_vars /\ []SkippedAfterResponse

\* with attempts to spare, the first URL's page had no JSON blob after its first
\* request, the second URL's document failed to build after its second
\* request, and main has ended without a result
C14_Witness ==
    /\ main_pc = "done"
    /\ max_attempts >= 2
    /\ Len(urls) = 2
    /\ parsed[1] = "no payload"
    /\ outcomes[1] = <<"ok">>
    /\ attempts[1] < max_attempts
    /\ parsed[2] = "build error"
    /\ outcomes[2] = <<"fail", "ok">>
    /\ results = <<>>

-----------------------------------------------------------------------------
(* parse_hours: sections with valid times (C15) *)

\* the start and the end of a section: `start`, or `openTime` when the section
\* has no `start` (or a null one); likewise `end` and `closeTime`
StartOf(sec) == IF Get(sec, "start") # Null THEN Get(sec, "start") ELSE Get(sec, "openTime")
EndOf(sec) == IF Get(sec, "end") # Null THEN Get(sec, "end") ELSE Get(sec, "closeTime")

\* the Time Parser accepts v: it returns minutes
Accepted(v) ==
    parse_time_to_minutes(v).exc = "none" /\ parse_time_to_minutes(v).minutes # Null

\* the result r has, for the day, a SectionHours with the minutes of sec
EmittedFor(r, day, sec) ==
    \E d \in 1..Len(r.out) :
        /\ Get(r.out[d], "dayRange") = KeyStr(day)
        /\ \E k \in 1..Len(Get(r.out[d], "sectionHours").items) :
              /\ Get(Get(r.out[d], "sectionHours").items[k], "startTime")
                    = parse_time_to_minutes(StartOf(sec)).minutes
              /\ Get(Get(r.out[d], "sectionHours").items[k], "endTime")
                    = parse_time_to_minutes(EndOf(sec)).minutes

AllValidEmitted(schedule, r) ==
    \A d \in 1..Len(schedule.keys) :
        IsArr(schedule.vals[d]) =>
            \A j \in 1..Len(schedule.vals[d].items) :
                (/\ IsObj(schedule.vals[d].items[j])
                 /\ Accepted(StartOf(schedule.vals[d].items[j]))
                 /\ Accepted(EndOf(schedule.vals[d].items[j])))
                    => EmittedFor(r, schedule.keys[d], schedule.vals[d].items[j])

\* C15: of a day-keyed schedule, every section Object whose start and end are
\* both accepted by the Time Parser, the number 0 included, is among the
\* SectionHours of its day in the result, so that every day with such a section
\* is there.
C15_ValidSectionsEmitted ==
    (/\ op = "parse_hours"
     /\ ~hours_pass_through(arg)
     /\ IsObj(found_schedule(arg))
     /\ result.exc = "none")
        => AllValidEmitted(found_schedule(arg), result)

====
